---- MODULE Spec2Model ----
(***************************************************************************)
(* Model of the NAU-OSL email parser (src/src/email_parser.py): one run of *)
(* main() from reading the configuration to calling the extractor.         *)
(*                                                                         *)
(* Python strings are sequences of one-character strings, so that the      *)
(* regular expressions, rsplit, sorted and int are computed character by   *)
(* character as the interpreter computes them.                             *)
(***************************************************************************)
EXTENDS Integers, Sequences, FiniteSets, TLC

VARIABLES
    cfg_metadict,        \* result of get_cfg_dict(): [parser |-> ..., extractor |-> ...]
    inbox,               \* mailbox on the IMAP server: what fetch returns per position
    pc,                  \* position of main()
    raised,              \* uncaught exception that ended the run, or NoError
    email_obj_list,      \* get_email_obj_list's result
    email_content_dict,  \* get_email_content_dict's result, cleaned in place later
    entry_idx,           \* get_issue_num_list: number of entries already looped over
    body_list,           \* get_issue_num_list local: candidates of the last entry
    issue_list,          \* get_issue_num_list local, then main's issue_list
    issue_range,         \* main's issue_list after line 55: [first, last] as ints
    written,             \* files written by write_dict_to_json: sequence of [path, content]
    calls                \* os.system command lines issued

vars == <<cfg_metadict, inbox, pc, raised, email_obj_list, email_content_dict,
          entry_idx, body_list, issue_list, issue_range, written, calls>>

----------------------------------------------------------------------------
(* Bounds of the model *)

MaxMsgs == 3       \* messages in a batch inbox
MaxBodyLen == 3    \* characters of an arbitrary raw body
MaxLines == 2      \* lines of a body made of links and text

----------------------------------------------------------------------------
(* Characters and strings *)

\* printable ASCII, code points 32..95 and 97..126 (the grave accent, 96, is
\* left out: it cannot be written in a string here)
AsciiLow == <<" ","!","\"","#","$","%","&","'","(",")","*","+",",","-",".","/","0","1","2","3","4","5","6","7","8","9",":",";","<","=",">","?","@","A","B","C","D","E","F","G","H","I","J","K","L","M","N","O","P","Q","R","S","T","U","V","W","X","Y","Z","[","\\","]","^","_">>
AsciiHigh == <<"a","b","c","d","e","f","g","h","i","j","k","l","m","n","o","p","q","r","s","t","u","v","w","x","y","z","{","|","}","~">>

Digits == {"0","1","2","3","4","5","6","7","8","9"}

\* ord(c) for the characters used: printable ASCII, tab, newline, carriage return
Ord(c) ==
    IF c = "\t" THEN 9
    ELSE IF c = "\n" THEN 10
    ELSE IF c = "\r" THEN 13
    ELSE IF \E i \in 1..Len(AsciiLow) : AsciiLow[i] = c
         THEN 31 + (CHOOSE i \in 1..Len(AsciiLow) : AsciiLow[i] = c)
         ELSE 96 + (CHOOSE i \in 1..Len(AsciiHigh) : AsciiHigh[i] = c)

\* str.isprintable() of one character
PrintableChars ==
    {AsciiLow[i] : i \in 1..Len(AsciiLow)} \cup {AsciiHigh[i] : i \in 1..Len(AsciiHigh)}
isprintable(c) == c \in PrintableChars

\* Python's < on str: lexicographic by code point
RECURSIVE StrLess(_, _)
StrLess(a, b) ==
    IF b = <<>> THEN FALSE
    ELSE IF a = <<>> THEN TRUE
    ELSE IF Ord(Head(a)) < Ord(Head(b)) THEN TRUE
    ELSE IF Ord(Head(a)) > Ord(Head(b)) THEN FALSE
    ELSE StrLess(Tail(a), Tail(b))

\* needle in hay (substring test)
StrIn(needle, hay) ==
    \E i \in 1..(Len(hay) - Len(needle) + 1) :
        SubSeq(hay, i, i + Len(needle) - 1) = needle

\* string.rsplit("/", 1)[1]: what follows the last "/"
rsplit_last(string) ==
    LET slashes == {i \in 1..Len(string) : string[i] = "/"}
        last == CHOOSE i \in slashes : \A j \in slashes : j <= i
    IN SubSeq(string, last + 1, Len(string))

\* int(s) of a string of ASCII digits
RECURSIVE int(_)
int(s) ==
    IF s = <<>> THEN 0
    ELSE 10 * int(SubSeq(s, 1, Len(s) - 1)) + (Ord(s[Len(s)]) - 48)

\* list.insert keeping order, the step of sorted()
RECURSIVE InsertSorted(_, _)
InsertSorted(x, list) ==
    IF list = <<>> THEN <<x>>
    ELSE IF StrLess(x, Head(list)) THEN <<x>> \o list
    ELSE <<Head(list)>> \o InsertSorted(x, Tail(list))

\* sorted(list) of a list of str
RECURSIVE sorted(_)
sorted(list) ==
    IF list = <<>> THEN <<>>
    ELSE InsertSorted(list[Len(list)], sorted(SubSeq(list, 1, Len(list) - 1)))

----------------------------------------------------------------------------
(* Regular expressions of get_issue_num_list *)

UrlHead == <<"h","t","t","p","s",":","/","/","g","i","t","h","u","b",".","c","o","m","/">>
UrlTail == <<"/","i","s","s","u","e","s","/">>
TagHead == <<"(","I","s","s","u","e"," ","#">>

\* the literal part of rf"https://github.com/{cfg_repo}/issues/\d+$"
issue_url(cfg_repo) == UrlHead \o cfg_repo \o UrlTail

\* one pattern character against one subject character: "." is the regex
\* wildcard (any character but newline), every other character of the
\* pattern used here (letters, digits, ":", "/", "-", "_") matches itself
AtomMatches(p, c) == IF p = "." THEN c # "\n" ELSE p = c

\* \d+$ against the rest of the string: one or more digits up to the end, or
\* up to a newline that ends the string
DigitsToEnd(rest) ==
    LET n == Len(rest)
        m == IF n > 0 /\ rest[n] = "\n" THEN n - 1 ELSE n
    IN /\ m >= 1
       /\ \A i \in 1..m : rest[i] \in Digits

\* re.search(issue_url, string) is not None
re_search_issue_url(cfg_repo, string) ==
    LET pat == issue_url(cfg_repo)
    IN \E i \in 1..(Len(string) - Len(pat)) :
          /\ \A k \in 1..Len(pat) : AtomMatches(pat[k], string[i + k - 1])
          /\ DigitsToEnd(SubSeq(string, i + Len(pat), Len(string)))

\* whether r"\(Issue \#\d+\)" matches string[i..j]
TagAt(string, i, j) ==
    /\ j - i + 1 >= Len(TagHead) + 2
    /\ SubSeq(string, i, i + Len(TagHead) - 1) = TagHead
    /\ string[j] = ")"
    /\ \A k \in (i + Len(TagHead))..(j - 1) : string[k] \in Digits

\* re.search(subject_issue_str, subject): found is "is not None", group is
\* group() of the leftmost match
re_search_subject_issue(subject) ==
    LET spans == {s \in (1..Len(subject)) \X (1..Len(subject)) : TagAt(subject, s[1], s[2])}
    IN IF spans = {} THEN [found |-> FALSE, group |-> <<>>]
       ELSE LET first == CHOOSE s \in spans : \A t \in spans : s[1] <= t[1]
            IN [found |-> TRUE, group |-> SubSeq(subject, first[1], first[2])]

----------------------------------------------------------------------------
(* Module constants of email_parser.py *)

Github == <<"g","i","t","h","u","b">>
Jira == <<"j","i","r","a">>

HOST_DICT == [gmail |-> "imap.gmail.com", outlook |-> "outlook.office365.com",
              yahoo |-> "imap.mail.yahoo.com"]

SENDER_DICT == [s \in {Github, Jira} |-> IF s = Github THEN "\"Github\"" ELSE "\"Jira\""]

\* an exception: its type, the function that raised it and the position of
\* main() at that moment
NoError == [type |-> "none", in |-> "none", at |-> "none"]

----------------------------------------------------------------------------
(* parse_email_bodies *)

\* body_char_step without the test filtered_body != "": every non-printable
\* character closes a fragment, empty or not
body_char_step_unguarded(acc, char) ==
    IF isprintable(char)
    THEN [acc EXCEPT !.cur = Append(acc.cur, char)]
    ELSE [list |-> Append(acc.list, acc.cur), cur |-> <<>>]

\* one iteration of the loop over the characters of a body; acc is
\* [list |-> filtered_body_list, cur |-> filtered_body]
body_char_step(acc, char) ==
    IF isprintable(char)
    THEN [acc EXCEPT !.cur = Append(acc.cur, char)]
    ELSE IF acc.cur # <<>>
         THEN [list |-> Append(acc.list, acc.cur), cur |-> <<>>]
         ELSE acc

\* the loop over body[lo..hi], left to right, from the state acc. The range
\* is split in halves and the left half is finished first (the test
\* left = left only makes the evaluator do so), which keeps the evaluation
\* shallow on long bodies; the result is that of the plain loop.
RECURSIVE body_scan(_, _, _, _)
body_scan(body, lo, hi, acc) ==
    IF lo > hi THEN acc
    ELSE IF lo = hi THEN body_char_step(acc, body[lo])
    ELSE LET mid == (lo + hi) \div 2
             left == body_scan(body, lo, mid, acc)
         IN IF left = left THEN body_scan(body, mid + 1, hi, left) ELSE acc

\* the value assigned to email_dict[key]["body"]: the list as it stands when
\* the loop over the characters ends
filtered_body_list(body) ==
    body_scan(body, 1, Len(body), [list |-> <<>>, cur |-> <<>>]).list

----------------------------------------------------------------------------
(* get_issue_num_list, the body of the loop over the entries *)

\* body_list: the text after the last "/" of every fragment the url matches
candidates(entry, cfg_repo) ==
    LET Hit(string) == re_search_issue_url(cfg_repo, string)
        hits == SelectSeq(entry.body, Hit)
    IN [i \in 1..Len(hits) |-> rsplit_last(hits[i])]

\* github_entry without the test "subject_issue is not None": a body link is
\* trusted when the subject has no tag
github_entry_untagged(entry, cfg_repo, issues) ==
    LET cands == candidates(entry, cfg_repo)
        subject_issue == re_search_subject_issue(entry.subject)
        IsIn(num) == StrIn(num, subject_issue.group)
        issue_num == IF subject_issue.found THEN SelectSeq(cands, IsIn) ELSE <<cands[1]>>
    IN IF cands # <<>>
       THEN IF Len(issue_num) = 1
            THEN [raised |-> NoError, body_list |-> cands,
                  issue_list |-> Append(issues, issue_num[1])]
            ELSE [raised |-> [type |-> "TypeError", in |-> "get_issue_num_list",
                              at |-> "cleaned"],
                  body_list |-> cands, issue_list |-> issues]
       ELSE [raised |-> NoError, body_list |-> cands, issue_list |-> issues]

\* one entry: the candidates, then the subject check and the append
github_entry(entry, cfg_repo, issues) ==
    LET cands == candidates(entry, cfg_repo)
        subject_issue == re_search_subject_issue(entry.subject)
        IsIn(num) == StrIn(num, subject_issue.group)
        issue_num == SelectSeq(cands, IsIn)
    IN IF cands # <<>> /\ subject_issue.found
       THEN IF Len(issue_num) = 1
            THEN [raised |-> NoError, body_list |-> cands,
                  issue_list |-> Append(issues, issue_num[1])]
            ELSE [raised |-> [type |-> "TypeError", in |-> "get_issue_num_list",
                              at |-> "cleaned"],
                  body_list |-> cands, issue_list |-> issues]
       ELSE [raised |-> NoError, body_list |-> cands, issue_list |-> issues]

----------------------------------------------------------------------------
(* create_extractor_input *)

\* create_extractor_input with = in place of |=: the extractor configuration
\* is replaced by the two new keys
create_extractor_input_replacing(meta, issue_num_list, out_path) ==
    LET extractor_cfg == [repo |-> meta.parser.repo, range |-> issue_num_list]
    IN [extractor |-> extractor_cfg,
        file |-> [path |-> out_path, content |-> extractor_cfg]]

\* extractor_cfg |= {"repo": ..., "range": ...}, then write_dict_to_json
create_extractor_input(meta, issue_num_list, out_path) ==
    LET old == meta.extractor
        extractor_cfg == [k \in DOMAIN old \cup {"repo", "range"} |->
                             IF k = "repo" THEN meta.parser.repo
                             ELSE IF k = "range" THEN issue_num_list
                             ELSE old[k]]
    IN [extractor |-> extractor_cfg,
        file |-> [path |-> out_path, content |-> extractor_cfg]]

----------------------------------------------------------------------------
(* Inputs of a run: the configuration file and the mailbox *)

AcmeWidget == <<"a","c","m","e","/","w","i","d","g","e","t">>
AcmeGadget == <<"a","c","m","e","/","g","a","d","g","e","t">>
Gitlab == <<"g","i","t","l","a","b">>
OutDir == <<"o","u","t">>
ExtractorExe == <<"e","x","t","r","a","c","t","o","r",".","p","y">>
ExtractorFile == <<"/","e","x","t","r","a","c","t","o","r","_","i","n","p","u","t",".","j","s","o","n">>
PythonCmd == <<"p","y","t","h","o","n"," ">>

AltHost == <<"h","t","t","p","s",":","/","/","g","i","t","h","u","b","-","c","o","m","/">>
CommentSuffix == <<"#","i","s","s","u","e","c","o","m","m","e","n","t","-","9","9">>
SeeText == <<"s","e","e"," ">>
Hello == <<"h","e","l","l","o">>
SubjHead == <<"R","e",":"," ">>
NL == <<"\n">>

N4 == <<"4">>
N7 == <<"7">>
N9 == <<"9">>
N10 == <<"1","0">>
N42 == <<"4","2">>

Link(repo, n) == UrlHead \o repo \o UrlTail \o n
Tag(n) == TagHead \o n \o <<")">>

Repos == {AcmeWidget, AcmeGadget}

ParserCfg(host, sender, repo) ==
    [host |-> host, addr |-> "user@example.org", passwd |-> "secret",
     sender |-> sender, repo |-> repo, output_dir |-> OutDir,
     extractor_exe |-> ExtractorExe]

\* extractor configurations: one that already has a repo and a range, one
\* that has neither
ExtractorFull ==
    [repo |-> AcmeGadget, range |-> <<0, 0>>, auth_file |-> "auth.txt",
     state |-> "closed", issue_fields |-> <<"title", "body">>,
     output_dir |-> "extractor_out"]
ExtractorBare ==
    [auth_file |-> "auth.txt", state |-> "open", output_dir |-> "extractor_out"]

Cfgs ==
    { [parser |-> ParserCfg("gmail", Github, AcmeWidget), extractor |-> ExtractorFull],
      [parser |-> ParserCfg("yahoo", Github, AcmeGadget), extractor |-> ExtractorBare],
      [parser |-> ParserCfg("gmail", Jira, AcmeWidget), extractor |-> ExtractorFull],
      [parser |-> ParserCfg("gmail", Gitlab, AcmeWidget), extractor |-> ExtractorFull],
      [parser |-> ParserCfg("aol", Github, AcmeWidget), extractor |-> ExtractorFull] }

Absent == [present |-> FALSE]
Msg(subject, body) ==
    [present |-> TRUE, Date |-> "Mon, 1 Jan 2024", subject |-> subject, body |-> body]

\* sequences over S of length at most n
RECURSIVE SeqsUpTo(_, _)
SeqsUpTo(S, n) ==
    IF n = 0 THEN {<<>>}
    ELSE LET shorter == SeqsUpTo(S, n - 1)
         IN shorter \cup {Append(q, x) : q \in shorter, x \in S}

\* messages of a batch: notifications of issues 9, 10 and 42 of acme/widget,
\* an unrelated message, a link whose number the subject tag does not
\* contain, two links of which the tag contains both, and a position whose
\* fetch returns nothing
BatchMsgs ==
    { Msg(SubjHead \o Tag(N9), Link(AcmeWidget, N9) \o NL),
      Msg(SubjHead \o Tag(N10), Link(AcmeWidget, N10) \o NL),
      Msg(SubjHead \o Tag(N42), Link(AcmeWidget, N42) \o NL),
      Msg(SubjHead \o Hello, Hello \o NL),
      Msg(SubjHead \o Tag(N10), Link(AcmeWidget, N7) \o NL),
      Msg(SubjHead \o Tag(N42), Link(AcmeWidget, N4) \o NL \o Link(AcmeWidget, N42) \o NL),
      Absent }

\* one message out of every combination of body lines and subject
Lines ==
    {Link(r, n) : r \in Repos, n \in {N4, N42}}
    \cup { SeeText \o Link(AcmeWidget, N42),
           Link(AcmeWidget, N42) \o CommentSuffix,
           AltHost \o AcmeWidget \o UrlTail \o N42,
           Hello }
Subjects ==
    { SubjHead \o Tag(N42), SubjHead \o Tag(N4), SubjHead \o Tag(N7), SubjHead \o Hello }

RECURSIVE Join(_)
Join(lines) == IF lines = <<>> THEN <<>> ELSE Head(lines) \o NL \o Join(Tail(lines))

\* bodies of one to MaxLines lines, the last line with or without its newline
LineBodies ==
    LET texts == {Join(ls) : ls \in SeqsUpTo(Lines, MaxLines) \ {<<>>}}
    IN texts \cup {SubSeq(t, 1, Len(t) - 1) : t \in texts}

\* arbitrary short bodies over printable and non-printable characters
BodyChars == {"a", " ", "\n", "\t"}
RawBodies == SeqsUpTo(BodyChars, MaxBodyLen)

Inboxes ==
    SeqsUpTo(BatchMsgs, MaxMsgs)
    \cup {<<Msg(subj, b)>> : subj \in Subjects, b \in LineBodies}
    \cup {<<Msg(SubjHead \o Tag(N4), b)>> : b \in RawBodies}

----------------------------------------------------------------------------
(* The run *)

Init ==
    /\ cfg_metadict \in Cfgs
    /\ inbox \in Inboxes
    /\ pc = "start"
    /\ raised = NoError
    /\ email_obj_list = <<>>
    /\ email_content_dict = <<>>
    /\ entry_idx = 0
    /\ body_list = <<>>
    /\ issue_list = <<>>
    /\ issue_range = <<>>
    /\ written = <<>>
    /\ calls = <<>>

parser_cfg == cfg_metadict.parser

Raise(type, in) ==
    /\ raised' = [type |-> type, in |-> in, at |-> pc]
    /\ pc' = "failed"

\* get_connection_obj: the host lookup, then connect, login and select on the
\* server, which succeed or raise
get_connection_obj ==
    /\ pc = "start"
    /\ \/ /\ parser_cfg.host \notin DOMAIN HOST_DICT
          /\ Raise("KeyError", "get_connection_obj")
       \/ /\ parser_cfg.host \in DOMAIN HOST_DICT
          /\ Raise("IMAP4.error", "get_connection_obj")
       \/ /\ parser_cfg.host \in DOMAIN HOST_DICT
          /\ pc' = "connected"
          /\ UNCHANGED raised
    /\ UNCHANGED <<cfg_metadict, inbox, email_obj_list, email_content_dict,
                   entry_idx, body_list, issue_list, issue_range, written, calls>>

\* main: sender = SENDER_DICT[parser_cfg["sender"]]
main_sender ==
    /\ pc = "connected"
    /\ \/ /\ parser_cfg.sender \notin DOMAIN SENDER_DICT
          /\ Raise("KeyError", "main")
       \/ /\ parser_cfg.sender \in DOMAIN SENDER_DICT
          /\ pc' = "search"
          /\ UNCHANGED raised
    /\ UNCHANGED <<cfg_metadict, inbox, email_obj_list, email_content_dict,
                   entry_idx, body_list, issue_list, issue_range, written, calls>>

\* get_email_obj_list with break in place of skipping: the loop over the
\* positions ends at the first position whose data is None
get_email_obj_list_stopping ==
    /\ pc = "search"
    /\ \/ Raise("IMAP4.error", "get_email_obj_list") /\ UNCHANGED email_obj_list
       \/ /\ LET none == {i \in 1..Len(inbox) : ~inbox[i].present}
                 stop == IF none = {} THEN Len(inbox) + 1
                         ELSE CHOOSE i \in none : \A j \in none : i <= j
             IN email_obj_list' = SubSeq(inbox, 1, stop - 1)
          /\ pc' = "fetched"
          /\ UNCHANGED raised
    /\ UNCHANGED <<cfg_metadict, inbox, email_content_dict,
                   entry_idx, body_list, issue_list, issue_range, written, calls>>

\* get_email_obj_list: search, which succeeds or raises, then one fetch per
\* position; a position whose data is None is skipped
get_email_obj_list ==
    /\ pc = "search"
    /\ \/ Raise("IMAP4.error", "get_email_obj_list") /\ UNCHANGED email_obj_list
       \/ /\ email_obj_list' = SelectSeq(inbox, LAMBDA m : m.present)
          /\ pc' = "fetched"
          /\ UNCHANGED raised
    /\ UNCHANGED <<cfg_metadict, inbox, email_content_dict,
                   entry_idx, body_list, issue_list, issue_range, written, calls>>

\* get_email_content_dict: key index (position - 1) to date, subject and body
get_email_content_dict ==
    /\ pc = "fetched"
    /\ email_content_dict' =
          [i \in 1..Len(email_obj_list) |->
              [date |-> email_obj_list[i].Date,
               subject |-> email_obj_list[i].subject,
               body |-> email_obj_list[i].body]]
    /\ pc' = "content"
    /\ UNCHANGED <<cfg_metadict, inbox, raised, email_obj_list,
                   entry_idx, body_list, issue_list, issue_range, written, calls>>

\* parse_email_bodies: every body replaced by its list of fragments
parse_email_bodies ==
    /\ pc = "content"
    /\ email_content_dict' =
          [i \in 1..Len(email_content_dict) |->
              [email_content_dict[i] EXCEPT !.body = filtered_body_list(@)]]
    /\ pc' = "cleaned"
    /\ UNCHANGED <<cfg_metadict, inbox, raised, email_obj_list,
                   entry_idx, body_list, issue_list, issue_range, written, calls>>

\* get_issue_num_list, one pass of the loop over email_dict.values()
get_issue_num_list_entry ==
    /\ pc = "cleaned"
    /\ StrIn(Github, parser_cfg.sender)
    /\ entry_idx < Len(email_content_dict)
    /\ LET res == github_entry(email_content_dict[entry_idx + 1], parser_cfg.repo, issue_list)
       IN /\ body_list' = res.body_list
          /\ issue_list' = res.issue_list
          /\ raised' = res.raised
          /\ pc' = IF res.raised = NoError THEN pc ELSE "failed"
    /\ entry_idx' = entry_idx + 1
    /\ UNCHANGED <<cfg_metadict, inbox, email_obj_list, email_content_dict,
                   issue_range, written, calls>>

\* get_issue_num_list, the end of the loop or the jira and else branches:
\* return sorted(issue_list)
get_issue_num_list_return ==
    /\ pc = "cleaned"
    /\ \/ ~StrIn(Github, parser_cfg.sender)
       \/ entry_idx = Len(email_content_dict)
    /\ issue_list' = sorted(issue_list)
    /\ pc' = "issues"
    /\ UNCHANGED <<cfg_metadict, inbox, raised, email_obj_list, email_content_dict,
                   entry_idx, body_list, issue_range, written, calls>>

\* main: issue_list = [int(issue_list[0]), int(issue_list[-1])]
main_range ==
    /\ pc = "issues"
    /\ \/ /\ issue_list = <<>>
          /\ Raise("IndexError", "main")
          /\ UNCHANGED issue_range
       \/ /\ issue_list # <<>>
          /\ issue_range' = <<int(issue_list[1]), int(issue_list[Len(issue_list)])>>
          /\ pc' = "range"
          /\ UNCHANGED raised
    /\ UNCHANGED <<cfg_metadict, inbox, email_obj_list, email_content_dict,
                   entry_idx, body_list, issue_list, written, calls>>

\* exe_extractor calling the extractor once per end of the range, as a loop
\* over groups of issue numbers would
exe_extractor_per_group ==
    /\ pc = "range"
    /\ LET output_dir == parser_cfg.output_dir \o <<"/">> \o rsplit_last(parser_cfg.repo)
           cur_extractor_input == output_dir \o ExtractorFile
           res == create_extractor_input(cfg_metadict, issue_range, cur_extractor_input)
           cmd == PythonCmd \o parser_cfg.extractor_exe \o <<" ">> \o cur_extractor_input
       IN /\ cfg_metadict' = [cfg_metadict EXCEPT !.extractor = res.extractor]
          /\ written' = Append(written, res.file)
          /\ calls' = calls \o <<cmd, cmd>>
    /\ pc' = "done"
    /\ UNCHANGED <<inbox, raised, email_obj_list, email_content_dict,
                   entry_idx, body_list, issue_list, issue_range>>

\* exe_extractor: the output directory, the input file, the call
exe_extractor ==
    /\ pc = "range"
    /\ LET output_dir == parser_cfg.output_dir \o <<"/">> \o rsplit_last(parser_cfg.repo)
           cur_extractor_input == output_dir \o ExtractorFile
           res == create_extractor_input(cfg_metadict, issue_range, cur_extractor_input)
       IN /\ cfg_metadict' = [cfg_metadict EXCEPT !.extractor = res.extractor]
          /\ written' = Append(written, res.file)
          /\ calls' = Append(calls, PythonCmd \o parser_cfg.extractor_exe
                                     \o <<" ">> \o cur_extractor_input)
    /\ pc' = "done"
    /\ UNCHANGED <<inbox, raised, email_obj_list, email_content_dict,
                   entry_idx, body_list, issue_list, issue_range>>

Next ==
    \/ get_connection_obj
    \/ main_sender
    \/ get_email_obj_list
    \/ get_email_content_dict
    \/ parse_email_bodies
    \/ get_issue_num_list_entry
    \/ get_issue_num_list_return
    \/ main_range
    \/ exe_extractor

Spec == Init /\ [][Next]_vars

----------------------------------------------------------------------------
(* Vocabulary of the properties *)

\* the raw message behind entry i of email_content_dict
RawOf(i) == email_obj_list[i]

\* get_issue_num_list has returned, or main has failed on its result
Aggregated ==
    \/ pc \in {"issues", "range", "done"}
    \/ pc = "failed" /\ raised.at = "issues"

\* the loop of get_issue_num_list has ended, by its end or by an exception
LoopEnded ==
    \/ Aggregated
    \/ pc = "failed" /\ raised.at = "cleaned"

\* parse_email_bodies has returned
Cleaned == pc = "cleaned" \/ LoopEnded

IsGithubRun == parser_cfg.sender = Github

\* the identifiers of issue_list as numbers
IssueInts == {int(issue_list[i]) : i \in 1..Len(issue_list)}

----------------------------------------------------------------------------
(* C1: for every non-empty collection of corroborated identifiers the range  *)
(* main derives is (min_id, max_id), the numerically smallest and largest of *)
(* the identifiers, so min_id <= max_id, also when the identifiers differ in *)
(* their number of digits.                                                   *)
C1_RangeIsMinMax ==
    pc \in {"range", "done"} =>
        /\ \A n \in IssueInts : issue_range[1] <= n /\ n <= issue_range[2]
        /\ issue_range[1] \in IssueInts
        /\ issue_range[2] \in IssueInts
        /\ issue_range[1] <= issue_range[2]

(* C2: when retrieval succeeds and no message corroborates, the run ends in  *)
(* an explicit failure of its own kind: not an unrelated error of the        *)
(* interpreter, not a default range, and the extractor is not called.        *)
BuiltinErrors == {"IndexError", "KeyError", "TypeError"}

C2_EmptyResultIsExplicitFailure ==
    (Aggregated /\ pc # "issues" /\ issue_list = <<>>) =>
        /\ pc = "failed"
        /\ raised.type \notin BuiltinErrors
        /\ calls = <<>>

----------------------------------------------------------------------------
(* What a message is, read off its text alone *)

IssueNums == {N4, N7, N9, N10, N42}

\* fragment ends with the text https://github.com/<repo>/issues/<digits>
IsCreationLink(frag, repo) ==
    LET url == UrlHead \o repo \o UrlTail
    IN \E k \in 1..(Len(frag) - Len(url)) :
          /\ SubSeq(frag, k, k + Len(url) - 1) = url
          /\ \A j \in (k + Len(url))..Len(frag) : frag[j] \in Digits

\* the digits a fragment ends with
TrailingNumber(frag) ==
    LET starts == {j \in 1..Len(frag) : \A i \in j..Len(frag) : frag[i] \in Digits}
    IN IF starts = {} THEN <<>>
       ELSE SubSeq(frag, CHOOSE j \in starts : \A i \in starts : j <= i, Len(frag))

LinkFrags(entry, repo) == {k \in 1..Len(entry.body) : IsCreationLink(entry.body[k], repo)}

\* the body has the creation link of issue n, no creation link of another
\* issue, and the subject has the tag (Issue #n)
Notifies(entry, repo, n) ==
    /\ LinkFrags(entry, repo) # {}
    /\ \A k \in LinkFrags(entry, repo) : TrailingNumber(entry.body[k]) = n
    /\ StrIn(Tag(n), entry.subject)

NotifiesOnce(entry, repo, n) ==
    /\ Notifies(entry, repo, n)
    /\ Cardinality(LinkFrags(entry, repo)) = 1

\* the body has creation links, the subject has a tag, and no link has the
\* number of the tag
Mismatched(entry, repo) ==
    /\ LinkFrags(entry, repo) # {}
    /\ \E n \in IssueNums :
          /\ StrIn(Tag(n), entry.subject)
          /\ \A k \in LinkFrags(entry, repo) : TrailingNumber(entry.body[k]) # n

\* no fragment of the body mentions an issue of any repository
Unrelated(entry) == \A k \in 1..Len(entry.body) : ~StrIn(UrlTail, entry.body[k])

Entries == 1..Len(email_content_dict)
Occurrences(list, x) == Cardinality({i \in 1..Len(list) : list[i] = x})

(* C3: a message whose body fragments have the creation link of issue N, once *)
(* or several times, and no creation link of another issue, and whose subject *)
(* has the tag (Issue #N), corroborates to N, and N enters the aggregated     *)
(* list once for that message.                                                *)
C3_NotificationYieldsItsNumber ==
    ( /\ LoopEnded
      /\ IsGithubRun
      /\ \A i \in Entries : \E n \in IssueNums :
            Notifies(email_content_dict[i], parser_cfg.repo, n) )
    => /\ ~(pc = "failed" /\ raised.at = "cleaned")
       /\ \A n \in IssueNums :
             Occurrences(issue_list, n) =
                Cardinality({i \in Entries : Notifies(email_content_dict[i], parser_cfg.repo, n)})

(* C4: a message whose body has a creation link and whose subject tag names   *)
(* another issue is ignored: it contributes nothing, the remaining messages   *)
(* are processed and the run does not abort.                                  *)
C4_MismatchIsIgnored ==
    ( /\ LoopEnded
      /\ IsGithubRun
      /\ \E i \in Entries : Mismatched(email_content_dict[i], parser_cfg.repo)
      /\ \A i \in Entries :
            \/ Mismatched(email_content_dict[i], parser_cfg.repo)
            \/ Unrelated(email_content_dict[i])
            \/ \E n \in IssueNums : NotifiesOnce(email_content_dict[i], parser_cfg.repo, n) )
    => /\ ~(pc = "failed" /\ raised.at = "cleaned")
       /\ \A n \in IssueNums :
             Occurrences(issue_list, n) =
                Cardinality({i \in Entries : NotifiesOnce(email_content_dict[i], parser_cfg.repo, n)})

(* C5: a message with a candidate link in its body and no (Issue #N) tag in   *)
(* its subject contributes no identifier, and so does a message without any   *)
(* candidate, whatever its subject; neither raises.                           *)
Uncorroborated(entry, repo) ==
    \/ candidates(entry, repo) = <<>>
    \/ ~re_search_subject_issue(entry.subject).found

C6_CandidatesOnlyFromCreationLinks ==
    (IsGithubRun /\ entry_idx >= 1) =>
        Len(body_list) <= Cardinality(LinkFrags(email_content_dict[entry_idx], parser_cfg.repo))

----------------------------------------------------------------------------
(* Normalization, read off the raw body alone *)

\* the raw body without its non-printable characters
Stripped(raw) == SelectSeq(raw, isprintable)

RECURSIVE Concat(_)
Concat(frags) == IF frags = <<>> THEN <<>> ELSE Head(frags) \o Concat(Tail(frags))

\* the maximal runs of printable characters of a body, as pairs of first and
\* last position
Runs(raw) ==
    LET gaps == {k \in 1..Len(raw) : ~isprintable(raw[k])}
        starts == {i \in (1..Len(raw)) \ gaps : i = 1 \/ (i - 1) \in gaps}
        End(i) == LET later == {k \in gaps : k > i}
                  IN IF later = {} THEN Len(raw)
                     ELSE (CHOOSE k \in later : \A m \in later : k <= m) - 1
    IN {<<i, End(i)>> : i \in starts}

\* the n-th run from the left
NthRun(raw, runs, n) ==
    LET r == CHOOSE x \in runs : Cardinality({y \in runs : y[1] < x[1]}) = n - 1
    IN SubSeq(raw, r[1], r[2])

(* C7: normalization preserves content: the fragments of a body, concatenated *)
(* in order, are the body without its non-printable characters; a run of      *)
(* printable characters that reaches the end of the body is the last fragment.*)
C7_NormalizationPreservesContent ==
    Cleaned =>
        \A i \in Entries : Concat(email_content_dict[i].body) = Stripped(RawOf(i).body)

(* C8: for every body, the empty one included, normalization does not fail,   *)
(* every fragment is non-empty and printable, and the fragments are maximal   *)
(* printable runs of the body in their left-to-right order.                   *)
C8_FragmentsArePrintableRunsInOrder ==
    /\ ~(pc = "failed" /\ raised.at = "content")
    /\ Cleaned =>
          /\ Len(email_content_dict) = Len(email_obj_list)
          /\ \A i \in Entries :
                LET frags == email_content_dict[i].body
                    raw == RawOf(i).body
                    runs == Runs(raw)
                IN /\ Len(frags) <= Cardinality(runs)
                   /\ \A k \in 1..Len(frags) :
                         /\ frags[k] # <<>>
                         /\ \A j \in 1..Len(frags[k]) : isprintable(frags[k][j])
                         /\ frags[k] = NthRun(raw, runs, k)

\* a body with two non-printable characters in a row has been normalized into
\* at least one fragment
C8_Witness ==
    /\ pc = "cleaned"
    /\ \E i \in Entries :
          /\ Len(email_content_dict[i].body) >= 1
          /\ \E j \in 1..(Len(RawOf(i).body) - 1) :
                /\ ~isprintable(RawOf(i).body[j])
                /\ ~isprintable(RawOf(i).body[j + 1])

(* C9: for a sender other than the implemented one (jira, or a value that is  *)
(* not supported) the sender selection does not raise and corroboration       *)
(* yields no identifier for any message.                                      *)
C9_OtherSendersAreNoOp ==
    ~IsGithubRun =>
        /\ ~(pc = "failed" /\ raised.at = "connected")
        /\ LoopEnded => issue_list = <<>>

\* the name part of owner/name
TrailingName(repo) ==
    LET k == CHOOSE i \in 1..Len(repo) : repo[i] = "/" /\ \A j \in (i + 1)..Len(repo) : repo[j] # "/"
    IN SubSeq(repo, k + 1, Len(repo))

(* C10: the request create_extractor_input writes has the repository of the   *)
(* parser configuration, the range main computed, every other field of the    *)
(* extractor configuration as it was, and goes to the file derived from the   *)
(* configured output directory.                                               *)
C10_ExtractorRequest ==
    [][ (pc = "range" /\ pc' = "done") =>
          LET old == cfg_metadict.extractor
              req == written'[Len(written')]
          IN /\ Len(written') = Len(written) + 1
             /\ req.path = parser_cfg.output_dir \o <<"/">>
                              \o TrailingName(parser_cfg.repo) \o ExtractorFile
             /\ DOMAIN req.content = DOMAIN old \cup {"repo", "range"}
             /\ req.content.repo = parser_cfg.repo
             /\ req.content.range = issue_range
             /\ \A k \in DOMAIN old \ {"repo", "range"} : req.content[k] = old[k] ]_vars

\* a request with a proper range has been written, and it carries fields of
\* the extractor configuration
C10_Witness ==
    /\ pc = "done"
    /\ Len(written) = 1
    /\ written[1].content.range = issue_range
    /\ issue_range[1] < issue_range[2]
    /\ written[1].content.state = "closed"

----------------------------------------------------------------------------
(* C11: every identifier a message contributes to the aggregated list is      *)
(* numerically equal to the number N of the tag (Issue #N) in the subject of  *)
(* that message; a candidate that is only a digit substring of the tag, such  *)
(* as 4 under (Issue #42), is never accepted.                                 *)
C11_ContributionEqualsTagNumber ==
    [][ ( /\ pc = "cleaned"
          /\ entry_idx' = entry_idx + 1
          /\ issue_list' # issue_list )
        => \E n \in IssueNums :
              /\ StrIn(Tag(n), email_content_dict[entry_idx + 1].subject)
              /\ Len(issue_list') = Len(issue_list) + 1
              /\ SubSeq(issue_list', 1, Len(issue_list)) = issue_list
              /\ int(issue_list'[Len(issue_list')]) = int(n) ]_vars

\* the body has creation links of two different issues, and the tag of the
\* subject contains the number of both
Ambiguous(entry, repo) ==
    \E n \in IssueNums :
        /\ StrIn(Tag(n), entry.subject)
        /\ \E k1, k2 \in LinkFrags(entry, repo) :
              /\ TrailingNumber(entry.body[k1]) # TrailingNumber(entry.body[k2])
              /\ StrIn(TrailingNumber(entry.body[k1]), Tag(n))
              /\ StrIn(TrailingNumber(entry.body[k2]), Tag(n))

(* C12: a message of which more than one candidate survives the intersection  *)
(* with the subject tag is left out of the aggregation, the remaining         *)
(* messages are still processed, and the run is not aborted.                  *)
C12_AmbiguousIsDroppedLocally ==
    ( /\ LoopEnded
      /\ IsGithubRun
      /\ \E i \in Entries : Ambiguous(email_content_dict[i], parser_cfg.repo)
      /\ \A i \in Entries :
            \/ Ambiguous(email_content_dict[i], parser_cfg.repo)
            \/ Unrelated(email_content_dict[i])
            \/ \E n \in IssueNums : NotifiesOnce(email_content_dict[i], parser_cfg.repo, n) )
    => /\ ~(pc = "failed" /\ raised.at = "cleaned")
       /\ \A n \in IssueNums :
             Occurrences(issue_list, n) =
                Cardinality({i \in Entries : NotifiesOnce(email_content_dict[i], parser_cfg.repo, n)})

----------------------------------------------------------------------------
\* the positions of the inbox whose fetch returns a message
PresentAt == {i \in 1..Len(inbox) : inbox[i].present}

\* the n-th of them in search order
NthPresent(n) ==
    CHOOSE i \in PresentAt : Cardinality({j \in PresentAt : j < i}) = n - 1

\* the run has failed while connecting to the mailbox or searching it
RetrievalFailed == pc = "failed" /\ raised.at \in {"start", "search"}

C14_AbsentFetchIsSkipped ==
    /\ (pc = "failed" /\ raised.at = "search") => raised.type = "IMAP4.error"
    /\ (pc \notin {"start", "connected", "search"} /\ ~RetrievalFailed
           /\ ~(pc = "failed" /\ raised.at = "connected")) =>
          /\ Len(email_obj_list) = Cardinality(PresentAt)
          /\ \A k \in 1..Len(email_obj_list) : email_obj_list[k] = inbox[NthPresent(k)]

\* the messages have been fetched from an inbox with an empty position before
\* a message
C14_Witness ==
    /\ pc = "fetched"
    /\ email_obj_list # <<>>
    /\ \E i, j \in 1..Len(inbox) : i < j /\ ~inbox[i].present /\ inbox[j].present

====
